---- MODULE Spec2Model ----
(***************************************************************************)
(* Vibration Lab (src/app.py): the ascendant crossing search, the Moon     *)
(* trigger search, the trigger ladder (scoring, ranking, output) and the   *)
(* Aspects Explorer sample guard.                                          *)
(*                                                                         *)
(* Time is counted in ticks after the anchor instant (TicksPerMin ticks to *)
(* the minute); a tick is the resolution of a datetime of the model, so    *)
(* timedelta/2 rounds to a whole tick the way Python rounds to a whole     *)
(* microsecond (half to even).  Angles are whole degrees, so the float     *)
(* arithmetic of the source is exact on every value of the model.  The     *)
(* ephemeris (swisseph) is an external collaborator: its answers are drawn *)
(* from families of linear signals, with and without failures.             *)
(***************************************************************************)
EXTENDS Integers, Sequences, FiniteSets, TLC

VARIABLES
  pc,                \* position of the script / of the call under test
  eph,               \* the ephemeris' behaviour during this run
  horizon_hours,     \* sidebar: scan horizon
  bar_minutes,       \* sidebar: bar interval
  best_angle,        \* result of the harmonic price engine
  start_utc,         \* scan window start (ticks)
  end_utc,           \* scan window end (ticks)
  args,              \* remaining arguments of a direct ascendant_hit_times call
  hits,              \* result of a direct ascendant_hit_times call
  targets_for_time,  \* framework_targets + harmonic_targets
  ti,                \* index of the next target of the ladder loop
  ladder_rows,       \* the ladder
  shown,             \* rows written by the ladder output
  final_pick,        \* rows used by the final unified prediction (0 or 1)
  aspects,           \* Aspects Explorer: window, step, sample counts
  wrap,              \* angle utilities under test: a, b, d, r
  numerology,        \* swing inputs and the numerology tags p_price, p_range, p_time
  trigger            \* a direct moon_trigger_time call: arguments and result

vars == <<pc, eph, horizon_hours, bar_minutes, best_angle, start_utc, end_utc,
          args, hits, targets_for_time, ti, ladder_rows, shown, final_pick,
          aspects, wrap, numerology, trigger>>

-----------------------------------------------------------------------------
(* Bounds of the model *)

\* ticks per minute: the resolution of the model's datetimes
TicksPerMin == 1
\* direct calls of ascendant_hit_times: start_utc, end_utc in 0..MaxT
MaxT == 11
\* swing prices of the numerology tags: 0..MaxUnits whole units
MaxUnits == 10
\* direct calls of moon_trigger_time: center_utc in 0..MaxCenter
MaxCenter == 3

-----------------------------------------------------------------------------
(* Program constants *)

MAX_SCAN_POINTS == 4000
MAX_WINDOW_DAYS == 30
ASC_STEP_MIN == 5
ASC_TOL_DEG == 1
MOON_SEARCH_MIN == 90
MOON_STEP_MIN == 5
BisectIters == 12
TopK == 8
deg_candidates == {0,45,60,90,120,135,180,225,240,270,300,315,330,360}

\* float("nan")
NaN == 99999
\* Python's None for a time
None == -99999

-----------------------------------------------------------------------------
(* Utilities *)

Abs(x) == IF x < 0 THEN -x ELSE x

Max(x, y) == IF x >= y THEN x ELSE y

wrap_deg(x) == IF x = NaN THEN NaN ELSE x % 360

wrapdiffShifted(a, b) == IF a = NaN \/ b = NaN THEN NaN ELSE ((a - b) % 360) - 180

\* def wrapdiff(a,b): return ((a-b+180)%360)-180
wrapdiff(a, b) == IF a = NaN \/ b = NaN THEN NaN ELSE ((a - b + 180) % 360) - 180

\* x * y <= 0 on floats: False as soon as one side is NaN
ProdLeZero(x, y) == x # NaN /\ y # NaN /\ x * y <= 0

WithinTolNoAbs(dm, tol) == dm # NaN /\ dm <= tol

\* abs(dm) <= tol_deg: False for NaN
WithinTol(dm, tol) == dm # NaN /\ Abs(dm) <= tol

\* dt.timedelta(minutes=step_min)
timedelta_minutes(m) == m * TicksPerMin

\* timedelta / 2: the quotient rounded to a whole tick, half to even
HalfOf(n) ==
  LET q == n \div 2
  IN IF n % 2 = 0 THEN q ELSE IF q % 2 = 0 THEN q ELSE q + 1

\* m = a + (b-a)/2
Midpoint(a, b) == a + HalfOf(b - a)

-----------------------------------------------------------------------------
(* Ephemeris accessor *)

\* swe.houses_ex / swe.houses for one house system: the raw ascmc[0], or raised
houses_ex(t, sig, sys) ==
  IF sig.fails = "all" /\ t >= sig.failFrom
    THEN [raised |-> TRUE, asc |-> 0]
  ELSE IF sig.fails = "primary" /\ t >= sig.failFrom /\ sys \in {"P", "K"}
    THEN [raised |-> TRUE, asc |-> 0]
  ELSE [raised |-> FALSE, asc |-> sig.phase + sig.rate * t]

\* Whether the whole fallback chain fails at t: the ascendant cannot be computed
AscUnavailable(t, sig) ==
  /\ houses_ex(t, sig, "P").raised
  /\ houses_ex(t, sig, "K").raised
  /\ houses_ex(t, sig, "E").raised
  /\ houses_ex(t, sig, "last").raised

\* ascendant_deg: Placidus, Koch, Equal, then swe.houses Equal, then NaN
ascendant_deg(t_utc, sig) ==
  LET P == houses_ex(t_utc, sig, "P")
      K == houses_ex(t_utc, sig, "K")
      E == houses_ex(t_utc, sig, "E")
      L == houses_ex(t_utc, sig, "last")
  IN IF ~P.raised THEN wrap_deg(P.asc)
     ELSE IF ~K.raised THEN wrap_deg(K.asc)
     ELSE IF ~E.raised THEN wrap_deg(E.asc)
     ELSE IF ~L.raised THEN wrap_deg(L.asc)
     ELSE NaN

-----------------------------------------------------------------------------
(* ascendant_hit_times *)

RECURSIVE AscBisect(_, _, _, _, _, _)
\* for _ in range(12): the bisection of one bracket; <<m>> for a hit, <<>> for none
AscBisect(a, b, k, sig, target_deg, tol_deg) ==
  IF k = 0 THEN <<>>
  ELSE LET m  == Midpoint(a, b)
           dm == wrapdiff(ascendant_deg(m, sig), target_deg)
           da == wrapdiff(ascendant_deg(a, sig), target_deg)
       IN IF WithinTol(dm, tol_deg) THEN <<m>>
          ELSE IF ProdLeZero(da, dm)
            THEN AscBisect(a, m, k - 1, sig, target_deg, tol_deg)
            ELSE AscBisect(m, b, k - 1, sig, target_deg, tol_deg)

\* one pass of "while t <= end_utc": the bracket [t, t+step]; prev is the cur of
\* the pass before, wrapdiff(asc(t), target_deg) (line 288 for the first pass)
AscPass(t, sig, target_deg, step, tol_deg) ==
  LET t2   == t + step
      prev == wrapdiff(ascendant_deg(t, sig), target_deg)
      cur  == wrapdiff(ascendant_deg(t2, sig), target_deg)
  IN IF ProdLeZero(prev, cur)
       THEN AscBisect(t, t2, BisectIters, sig, target_deg, tol_deg)
       ELSE <<>>

\* the passes i = 0, 1, ... of the loop have t = start + i*step while t <= end;
\* hits holds the passes' hits in the order of the passes
ascendant_hit_times(start, end, sig, target_deg, step_min, tol_deg) ==
  LET step == timedelta_minutes(step_min)
      n    == IF start <= end THEN (end - start) \div step + 1 ELSE 0
      pass == [i \in 0..(n - 1) |-> AscPass(start + i * step, sig, target_deg, step, tol_deg)]
      idx  == {i \in 0..(n - 1) : pass[i] # <<>>}
  IN [k \in 1..Cardinality(idx) |->
        pass[CHOOSE i \in idx : Cardinality({j \in idx : j < i}) = k - 1][1]]

-----------------------------------------------------------------------------
(* moon_trigger_time *)

\* swe.calc_ut(..., swe.MOON, ...)[0]: the raw Moon longitude
moon_raw(t, msig) == msig.phase + msig.rate * t

\* def moonlon(tu): wrap_deg(swe.calc_ut(...)[0])
moonlon(t, msig) == wrap_deg(moon_raw(t, msig))

RECURSIVE MoonBisect(_, _, _, _, _, _)
\* for _ in range(12): <<m>> when a midpoint is within tolerance, <<>> otherwise
MoonBisect(a, b, k, msig, target_deg, tol_deg) ==
  IF k = 0 THEN <<>>
  ELSE LET m  == Midpoint(a, b)
           dm == wrapdiff(moonlon(m, msig), target_deg)
           da == wrapdiff(moonlon(a, msig), target_deg)
       IN IF WithinTol(dm, tol_deg) THEN <<m>>
          ELSE IF ProdLeZero(da, dm)
            THEN MoonBisect(a, m, k - 1, msig, target_deg, tol_deg)
            ELSE MoonBisect(m, b, k - 1, msig, target_deg, tol_deg)

\* fallback: soft check at center
MoonFallback(center_utc, msig, target_deg, tol_deg) ==
  LET d0 == Abs(wrapdiff(moonlon(center_utc, msig), target_deg))
  IN [t |-> IF d0 <= tol_deg THEN center_utc ELSE None, ok |-> d0 <= tol_deg]

\* a pass that confirms the bracket's end without testing it
MoonPassTrusting(prev_t, t, msig, target_deg, tol_deg) ==
  LET r == MoonBisect(prev_t, t, BisectIters, msig, target_deg, tol_deg)
  IN IF r # <<>> THEN [t |-> r[1], ok |-> TRUE]
     ELSE [t |-> t, ok |-> TRUE]

\* one pass of "while t <= end" that finds prev_d * d <= 0: refine, else (t, |d| <= tol)
MoonPass(prev_t, t, msig, target_deg, tol_deg) ==
  LET d == wrapdiff(moonlon(t, msig), target_deg)
      r == MoonBisect(prev_t, t, BisectIters, msig, target_deg, tol_deg)
  IN IF r # <<>> THEN [t |-> r[1], ok |-> TRUE]
     ELSE [t |-> t, ok |-> WithinTol(d, tol_deg)]

\* moon_trigger_time: [t, ok].  The passes i = 1, 2, ... of the loop have
\* t = start + i*step while t <= end and prev_t = t - step; the first pass with a
\* sign change returns, and without one the fallback does.  The caller sees an
\* exception instead when msig.fail.
moon_trigger_time(center_utc, target_deg, msig, search_min, step_min, tol_deg) ==
  LET start == center_utc - timedelta_minutes(search_min)
      end   == center_utc + timedelta_minutes(search_min)
      step  == timedelta_minutes(step_min)
      n     == (end - start) \div step
      d(t)  == wrapdiff(moonlon(t, msig), target_deg)
      idx   == {i \in 1..n : ProdLeZero(d(start + (i - 1) * step), d(start + i * step))}
  IN IF idx = {} THEN MoonFallback(center_utc, msig, target_deg, tol_deg)
     ELSE LET i == CHOOSE x \in idx : \A y \in idx : x <= y
          IN MoonPass(start + (i - 1) * step, start + i * step, msig, target_deg, tol_deg)

-----------------------------------------------------------------------------
(* Targets and ladder rows *)

Target(label, deg, w) == [label |-> label, deg |-> deg, w |-> w]

\* try: planet_lon(Jupiter), planet_lon(Saturn) ... except Exception: pass
framework_targets(e) ==
  IF e.planetFail THEN <<>>
  ELSE <<Target("Jupiter", wrap_deg(e.jup), 3), Target("Saturn", wrap_deg(e.sat), 3)>>

\* theta = float(best_angle) % 360.0; labels "θ=..." and "θ+180=..."
harmonic_targets(angle) ==
  IF angle = None THEN <<>>
  ELSE LET theta == angle % 360
       IN <<Target("theta", theta, 2), Target("theta+180", (theta + 180) % 360, 2)>>

\* label.startswith("θ")
IsHarmonic(label) == label \in {"theta", "theta+180"}

\* round(n / d) for n >= 0, d > 0: half to even
Round(n, d) ==
  LET q == n \div d
      r == n % d
  IN IF 2 * r < d THEN q
     ELSE IF 2 * r > d THEN q + 1
     ELSE IF q % 2 = 0 THEN q ELSE q + 1

\* bars = max(1, round((hit - anchor_utc_dt).total_seconds() / 60 / bar_minutes))
Bars(hit, anchor, bar_min) == Max(1, Round(hit - anchor, TicksPerMin * bar_min))

RecencyRising(bars) == Max(0, (bars \div 50) - 6)

\* max(0, 6 - int(bars // 50))
Recency(bars) == Max(0, 6 - (bars \div 50))

\* score = 2*w (+ w if moon_ok) + recency (+ 1 if harmonic)
Score(w, moon_ok, bars, label) ==
  2 * w + (IF moon_ok THEN w ELSE 0) + Recency(bars)
        + (IF IsHarmonic(label) THEN 1 ELSE 0)

\* the flags list joined into the row's last field
Flags(label, moon_ok) ==
  (IF label \in {"Jupiter", "Saturn"} THEN <<"Framework">> ELSE <<>>)
  \o (IF moon_ok THEN <<"Moon">> ELSE <<>>)
  \o (IF IsHarmonic(label) THEN <<"Harmonic">> ELSE <<>>)

\* the row appended for a hit once its Moon search has returned mt = [t, ok].
\* The row's time is hit.astimezone(tz_loc): the same instant, compared as an
\* instant.
RowFrom(tg, hit, anchor, bar_min, mt) ==
  LET bars == Bars(hit, anchor, bar_min)
  IN [score     |-> Score(tg.w, mt.ok, bars, tg.label),
      time      |-> hit,
      label     |-> tg.label,
      deg       |-> tg.deg,
      bars      |-> bars,
      moon_time |-> IF mt.t # None /\ mt.ok THEN mt.t ELSE None,
      flags     |-> Flags(tg.label, mt.ok)]

\* one pass of "for hit in asc_hits": the row appended for this hit
Row(tg, hit, anchor, bar_min, msig) ==
  RowFrom(tg, hit, anchor, bar_min,
          moon_trigger_time(hit, tg.deg, msig, MOON_SEARCH_MIN, MOON_STEP_MIN,
                            ASC_TOL_DEG))

-----------------------------------------------------------------------------
(* Ranking: ladder_rows.sort(key=lambda r: (-r[0], r[1])) *)

SortKeyAscending(r) == <<r.score, r.time>>

SortKey(r) == <<-r.score, r.time>>

\* tuple comparison k1 <= k2
KeyLeq(k1, k2) == k1[1] < k2[1] \/ (k1[1] = k2[1] /\ k1[2] <= k2[2])

\* list.sort is stable: a row comes after the rows with a smaller key and after
\* the rows with an equal key that precede it in the list
SortRows(rows) ==
  LET n      == Len(rows)
      key    == [i \in 1..n |-> SortKey(rows[i])]
      pos(i) == Cardinality({j \in 1..n :
                   \/ ~KeyLeq(key[i], key[j])
                   \/ (key[j] = key[i] /\ j <= i)})
  IN [p \in 1..n |-> rows[CHOOSE i \in 1..n : pos(i) = p]]

-----------------------------------------------------------------------------
(* The ephemeris behaviours and sidebar inputs of the model *)

Never == [fails |-> "never", failFrom |-> 0]

AscSig(phase, rate, f) ==
  [phase |-> phase, rate |-> rate, fails |-> f.fails, failFrom |-> f.failFrom]

MoonSig(phase, rate, fail) == [phase |-> phase, rate |-> rate, fail |-> fail]

\* ascendant signals of a run: still, one turn and four turns in six hours
AscRunSignals ==
  {AscSig(300, 0, Never)}
  \cup {AscSig(ph, rt, Never) : ph \in {0, 300}, rt \in {1, 4}}
  \cup {AscSig(0, 4, [fails |-> f, failFrom |-> 100 * TicksPerMin]) : f \in {"primary", "all"}}

MoonSignals ==
  {MoonSig(ph, rt, FALSE) : ph \in {0, 150}, rt \in {0, 1}} \cup {MoonSig(0, 0, TRUE)}

Ephemerides ==
  {[asc |-> s, moon |-> m, jup |-> j, sat |-> st, planetFail |-> FALSE] :
      s \in AscRunSignals, m \in MoonSignals, j \in {2, 200}, st \in {2, 100}}
  \cup {[asc |-> s, moon |-> MoonSig(0, 0, FALSE), jup |-> 2, sat |-> 2,
         planetFail |-> TRUE] : s \in AscRunSignals}

\* st.slider("Scan horizon (hours from anchor)", 6, 240, 144)
Horizons == {6}

\* st.number_input("Bar interval (minutes)", min_value=1)
BarMinutes == {1, 60}

\* best_angle: the first deg of deg_candidates with the highest price score
BestAngles == {90, 360}

\* anchor_utc_dt, the origin of the model's clock
anchor_utc_dt == 0

NoAspects == [window_days |-> 0, step_min |-> 0, requested |-> 0, n_points |-> 0,
              warned |-> FALSE, positions |-> 0]

NoWrap == [a |-> 0, b |-> 0, d |-> 0, r |-> 0]

NoArgs == [target_deg |-> 0, step_min |-> 0, tol_deg |-> 0]

NoNumerology == [swing_low_price |-> 0, swing_high_price |-> 0, anchor_price |-> 0,
                 bars_between |-> 0, p_price |-> "", p_range |-> "", p_time |-> ""]

NoTrigger == [center_utc |-> 0, label |-> "", target_deg |-> 0, w |-> 0,
              search_min |-> 0, step_min |-> 0, tol_deg |-> 0, t |-> None, ok |-> FALSE]

-----------------------------------------------------------------------------
(* The run of the script (Spec) *)

Init ==
  /\ pc = "targets"
  /\ eph \in Ephemerides
  /\ horizon_hours \in Horizons
  /\ bar_minutes \in BarMinutes
  /\ best_angle \in BestAngles
  /\ start_utc = None
  /\ end_utc = None
  /\ args = NoArgs
  /\ hits = <<>>
  /\ targets_for_time = <<>>
  /\ ti = 1
  /\ ladder_rows = <<>>
  /\ shown = <<>>
  /\ final_pick = <<>>
  /\ aspects = NoAspects
  /\ numerology = NoNumerology
  /\ trigger = NoTrigger
  /\ wrap = NoWrap

\* lines 339-367: the targets, the scan window, the empty ladder
BuildTargets ==
  /\ pc = "targets"
  /\ targets_for_time' = framework_targets(eph) \o harmonic_targets(best_angle)
  /\ start_utc' = anchor_utc_dt
  /\ end_utc' = anchor_utc_dt + timedelta_minutes(60 * horizon_hours)
  /\ ladder_rows' = <<>>
  /\ pc' = "ladder"
  /\ UNCHANGED <<eph, horizon_hours, bar_minutes, best_angle, args, hits, ti,
                 shown, final_pick, aspects, wrap,
                 numerology, trigger>>

\* one pass of "for label, deg, w in targets_for_time"; an exception of the Moon
\* ephemeris inside moon_trigger_time leaves the script
LadderTarget ==
  /\ pc = "ladder"
  /\ ti <= Len(targets_for_time)
  /\ LET tg       == targets_for_time[ti]
         asc_hits == ascendant_hit_times(start_utc, end_utc, eph.asc, tg.deg,
                                         ASC_STEP_MIN, ASC_TOL_DEG)
     IN IF asc_hits # <<>> /\ eph.moon.fail
          THEN /\ pc' = "raised"
               /\ UNCHANGED <<ladder_rows, ti>>
          ELSE /\ ladder_rows' = ladder_rows \o
                    [i \in 1..Len(asc_hits) |->
                       Row(tg, asc_hits[i], anchor_utc_dt, bar_minutes, eph.moon)]
               /\ ti' = ti + 1
               /\ pc' = "ladder"
  /\ UNCHANGED <<eph, horizon_hours, bar_minutes, best_angle, start_utc, end_utc,
                 args, hits, targets_for_time, shown, final_pick, aspects, wrap,
                 numerology, trigger>>

\* ladder_rows.sort(key=lambda r: (-r[0], r[1]))
SortLadder ==
  /\ pc = "ladder"
  /\ ti > Len(targets_for_time)
  /\ ladder_rows' = SortRows(ladder_rows)
  /\ pc' = "sorted"
  /\ UNCHANGED <<eph, horizon_hours, bar_minutes, best_angle, start_utc, end_utc,
                 args, hits, targets_for_time, ti, shown, final_pick, aspects, wrap,
                 numerology, trigger>>

\* lines 397-415: the rows written (ladder_rows[:8]) and the final unified
\* prediction (ladder_rows[0]); final_price_projection is set whenever
\* best_angle is
Report ==
  /\ pc = "sorted"
  /\ shown' = SubSeq(ladder_rows, 1, IF Len(ladder_rows) < TopK THEN Len(ladder_rows) ELSE TopK)
  /\ final_pick' = IF ladder_rows # <<>> /\ best_angle # None
                     THEN <<ladder_rows[1]>> ELSE <<>>
  /\ pc' = "reported"
  /\ UNCHANGED <<eph, horizon_hours, bar_minutes, best_angle, start_utc, end_utc,
                 args, hits, targets_for_time, ti, ladder_rows, aspects, wrap,
                 numerology, trigger>>

\* lines 426-428: number_input ranges of the Aspects Explorer
WindowDays == {1, 2, 14, MAX_WINDOW_DAYS}
StepMinutes == {5, 60, 240}

\* lines 434-446: n_points, the guard, the times and the positions computed
AspectsExplorer ==
  /\ pc = "reported"
  /\ \E window_days \in WindowDays, step_min \in StepMinutes :
       LET total_minutes == 2 * window_days * 24 * 60
           requested     == 1 + total_minutes \div step_min
           n_points      == IF requested > MAX_SCAN_POINTS
                              THEN MAX_SCAN_POINTS ELSE requested
       IN aspects' = [window_days |-> window_days, step_min |-> step_min,
                      requested |-> requested, n_points |-> n_points,
                      warned |-> requested > MAX_SCAN_POINTS,
                      positions |-> n_points]
  /\ pc' = "done"
  /\ UNCHANGED <<eph, horizon_hours, bar_minutes, best_angle, start_utc, end_utc,
                 args, hits, targets_for_time, ti, ladder_rows, shown, final_pick, wrap,
                 numerology, trigger>>

\* include_aspects unchecked
SkipAspects ==
  /\ pc = "reported"
  /\ pc' = "done"
  /\ UNCHANGED <<eph, horizon_hours, bar_minutes, best_angle, start_utc, end_utc,
                 args, hits, targets_for_time, ti, ladder_rows, shown, final_pick,
                 aspects, wrap, numerology, trigger,
                 numerology, trigger>>

Next == BuildTargets \/ LadderTarget \/ SortLadder \/ Report \/ AspectsExplorer \/ SkipAspects

Spec == Init /\ [][Next]_vars

-----------------------------------------------------------------------------
(* Direct calls of ascendant_hit_times (SpecScan): any window, degenerate ones *)
(* included, over linear signals f(t) = (phase + rate*t) mod 360              *)

AscScanSignals ==
  {AscSig(ph, rt, Never) : ph \in {0, 357}, rt \in {-1, 0, 1, 4, 37}}
  \cup {AscSig(0, 1, [fails |-> "all", failFrom |-> 3])}

ScanArgs ==
  [target_deg : {0, 5, 180}, step_min : {2, 5}, tol_deg : {0, 1}]

InitScan ==
  /\ pc = "call"
  /\ eph \in {[asc |-> s, moon |-> MoonSig(0, 0, FALSE), jup |-> 0, sat |-> 0,
               planetFail |-> FALSE] : s \in AscScanSignals}
  /\ start_utc \in 0..MaxT
  /\ end_utc \in 0..MaxT
  /\ args \in ScanArgs
  /\ hits = <<>>
  /\ horizon_hours = 0
  /\ bar_minutes = 1
  /\ best_angle = None
  /\ targets_for_time = <<>>
  /\ ti = 1
  /\ ladder_rows = <<>>
  /\ shown = <<>>
  /\ final_pick = <<>>
  /\ aspects = NoAspects
  /\ numerology = NoNumerology
  /\ trigger = NoTrigger
  /\ wrap = NoWrap

CallAscendantHitTimes ==
  /\ pc = "call"
  /\ hits' = ascendant_hit_times(start_utc, end_utc, eph.asc, args.target_deg,
                                 args.step_min, args.tol_deg)
  /\ pc' = "returned"
  /\ UNCHANGED <<eph, horizon_hours, bar_minutes, best_angle, start_utc, end_utc,
                 args, targets_for_time, ti, ladder_rows, shown, final_pick,
                 aspects, wrap, numerology, trigger,
                 numerology, trigger>>

NextScan == CallAscendantHitTimes

SpecScan == InitScan /\ [][NextScan]_vars

-----------------------------------------------------------------------------
(* The angle utilities on every pair of whole degrees (SpecWrap) *)

InitWrap ==
  /\ pc = "wrap"
  /\ wrap \in [a : 0..359, b : 0..359, d : {0}, r : {0}]
  /\ eph = [asc |-> AscSig(0, 0, Never), moon |-> MoonSig(0, 0, FALSE), jup |-> 0,
            sat |-> 0, planetFail |-> FALSE]
  /\ start_utc = None
  /\ end_utc = None
  /\ args = NoArgs
  /\ hits = <<>>
  /\ horizon_hours = 0
  /\ bar_minutes = 1
  /\ best_angle = None
  /\ targets_for_time = <<>>
  /\ ti = 1
  /\ ladder_rows = <<>>
  /\ shown = <<>>
  /\ final_pick = <<>>
  /\ aspects = NoAspects
  /\ numerology = NoNumerology
  /\ trigger = NoTrigger

\* d = wrapdiff(a, b), then r = wrap_deg(b + d)
ApplyWrapdiff ==
  /\ pc = "wrap"
  /\ LET d == wrapdiff(wrap.a, wrap.b)
     IN wrap' = [wrap EXCEPT !.d = d, !.r = wrap_deg(wrap.b + d)]
  /\ pc' = "wrapped"
  /\ UNCHANGED <<eph, horizon_hours, bar_minutes, best_angle, start_utc, end_utc,
                 args, hits, targets_for_time, ti, ladder_rows, shown, final_pick,
                 aspects,
                 numerology, trigger>>

NextWrap == ApplyWrapdiff

SpecWrap == InitWrap /\ [][NextWrap]_vars

-----------------------------------------------------------------------------
(* The numerology tags of the swing (SpecNum).  A price is a whole number of  *)
(* hundredths, the resolution of the "%.2f" sidebar fields; bars_between is a *)
(* whole number of bars, at least 1.                                          *)

\* the exception of a dict lookup with a missing key
KeyError == "KeyError"

digital_root(n) == IF n > 0 THEN 1 + ((n - 1) % 9) ELSE 0

PLANET_MAP ==
  [k \in 1..9 |-> CASE k = 1 -> "Sun"     [] k = 2 -> "Moon"  [] k = 3 -> "Jupiter"
                    [] k = 4 -> "Rahu"    [] k = 5 -> "Mercury" [] k = 6 -> "Venus"
                    [] k = 7 -> "Ketu"    [] k = 8 -> "Saturn" [] k = 9 -> "Mars"]

\* PLANET_MAP[digital_root(int(round(abs(value))))], value in hundredths
numerology_planet(hundredths) ==
  LET root == digital_root(Round(Abs(hundredths), 100))
  IN IF root \in DOMAIN PLANET_MAP THEN PLANET_MAP[root] ELSE KeyError

\* swing prices: every whole unit up to MaxUnits, on it, half a unit above it
\* (a tie of round) and just over the half
SwingPrices == {100 * k + c : k \in 0..MaxUnits, c \in {0, 50, 51}}

AnchorPrices == {-150, 0, 49, 50, 51, 4333546}

BarsBetween == {1, 9, 10, 506}

InitNum ==
  /\ pc = "numerology"
  /\ numerology \in [swing_low_price : SwingPrices, swing_high_price : SwingPrices,
                     anchor_price : AnchorPrices, bars_between : BarsBetween,
                     p_price : {""}, p_range : {""}, p_time : {""}]
  /\ wrap = NoWrap
  /\ eph = [asc |-> AscSig(0, 0, Never), moon |-> MoonSig(0, 0, FALSE), jup |-> 0,
            sat |-> 0, planetFail |-> FALSE]
  /\ start_utc = None
  /\ end_utc = None
  /\ args = NoArgs
  /\ hits = <<>>
  /\ horizon_hours = 0
  /\ bar_minutes = 1
  /\ best_angle = None
  /\ targets_for_time = <<>>
  /\ ti = 1
  /\ ladder_rows = <<>>
  /\ shown = <<>>
  /\ final_pick = <<>>
  /\ aspects = NoAspects
  /\ trigger = NoTrigger

\* swing_range, then p_price, p_range, p_time in turn; the first lookup that
\* raises ends the script and leaves the later tags unassigned
ComputeNumerology ==
  /\ pc = "numerology"
  /\ LET swing_range == Abs(numerology.swing_high_price - numerology.swing_low_price)
         p_price == numerology_planet(numerology.anchor_price)
         p_range == numerology_planet(swing_range)
         p_time  == numerology_planet(100 * numerology.bars_between)
         done == [numerology EXCEPT !.p_price = p_price, !.p_range = p_range,
                                    !.p_time = p_time]
     IN IF p_price = KeyError
          THEN numerology' = numerology /\ pc' = "raised"
        ELSE IF p_range = KeyError
          THEN numerology' = [numerology EXCEPT !.p_price = p_price] /\ pc' = "raised"
        ELSE IF p_time = KeyError
          THEN /\ numerology' = [numerology EXCEPT !.p_price = p_price,
                                                   !.p_range = p_range]
               /\ pc' = "raised"
        ELSE numerology' = done /\ pc' = "numbered"
  /\ UNCHANGED <<eph, horizon_hours, bar_minutes, best_angle, start_utc, end_utc,
                 args, hits, targets_for_time, ti, ladder_rows, shown, final_pick,
                 aspects, wrap, trigger>>

NextNum == ComputeNumerology

SpecNum == InitNum /\ [][NextNum]_vars

-----------------------------------------------------------------------------
(* Direct calls of moon_trigger_time and the row built from the answer        *)
(* (SpecMoon): any center, target, search width, step and tolerance, over     *)
(* linear Moon signals f(t) = (phase + rate*t) mod 360                        *)

\* still, slow either way, a bracket's end exactly on the target, and a jump
\* over the +-180 seam inside one bracket; and an ephemeris that raises
MoonCallSignals ==
  {MoonSig(ph, rt, FALSE) : ph \in {0, 150, 357}, rt \in {-1, 0, 1, 10, 70}}
  \cup {MoonSig(0, 0, TRUE)}

\* the (label, w) pairs of targets_for_time
TargetKinds == {<<"Jupiter", 3>>, <<"theta", 2>>}

InitMoon ==
  /\ pc = "moon"
  /\ \E m \in MoonCallSignals :
       eph = [asc |-> AscSig(0, 0, Never), moon |-> m, jup |-> 0, sat |-> 0,
              planetFail |-> FALSE]
  /\ \E k \in TargetKinds :
       trigger \in [center_utc : 0..MaxCenter, label : {k[1]}, target_deg : {0, 90, 355},
                    w : {k[2]}, search_min : {0, 7, MOON_SEARCH_MIN},
                    step_min : {3, MOON_STEP_MIN}, tol_deg : {0, ASC_TOL_DEG},
                    t : {None}, ok : {FALSE}]
  /\ numerology = NoNumerology
  /\ wrap = NoWrap
  /\ start_utc = None
  /\ end_utc = None
  /\ args = NoArgs
  /\ hits = <<>>
  /\ horizon_hours = 0
  /\ bar_minutes = 1
  /\ best_angle = None
  /\ targets_for_time = <<>>
  /\ ti = 1
  /\ ladder_rows = <<>>
  /\ shown = <<>>
  /\ final_pick = <<>>
  /\ aspects = NoAspects

\* t_moon, moon_ok = moon_trigger_time(hit, deg, ...); an exception of the Moon
\* ephemeris leaves the call
CallMoonTriggerTime ==
  /\ pc = "moon"
  /\ IF eph.moon.fail
       THEN pc' = "raised" /\ trigger' = trigger
       ELSE LET mt == moon_trigger_time(trigger.center_utc, trigger.target_deg, eph.moon,
                                        trigger.search_min, trigger.step_min,
                                        trigger.tol_deg)
            IN /\ trigger' = [trigger EXCEPT !.t = mt.t, !.ok = mt.ok]
               /\ pc' = "triggered"
  /\ UNCHANGED <<eph, horizon_hours, bar_minutes, best_angle, start_utc, end_utc,
                 args, hits, targets_for_time, ti, ladder_rows, shown, final_pick,
                 aspects, wrap, numerology>>

\* the rest of the pass for this hit: score, flags, ladder_rows.append(...)
AppendRow ==
  /\ pc = "triggered"
  /\ ladder_rows' = Append(ladder_rows,
                           RowFrom(Target(trigger.label, trigger.target_deg, trigger.w),
                                   trigger.center_utc, anchor_utc_dt, bar_minutes,
                                   [t |-> trigger.t, ok |-> trigger.ok]))
  /\ pc' = "rowed"
  /\ UNCHANGED <<eph, horizon_hours, bar_minutes, best_angle, start_utc, end_utc,
                 args, hits, targets_for_time, ti, shown, final_pick, aspects, wrap,
                 numerology, trigger>>

NextMoon == CallMoonTriggerTime \/ AppendRow

SpecMoon == InitMoon /\ [][NextMoon]_vars

-----------------------------------------------------------------------------
(* Claims *)

\* C1: ascendant_hit_times returns no hit for a degenerate window
\* (start_utc = end_utc or start_utc > end_utc), whatever the signal, the target,
\* the tolerance and the step.
C1_DegenerateWindowEmpty ==
  (pc = "returned" /\ start_utc >= end_utc) => hits = <<>>

-----------------------------------------------------------------------------

Min(x, y) == IF x <= y THEN x ELSE y

\* C2: every row of ladder_rows (every hit of ascendant_hit_times) has its time
\* inside the scan window: start_utc <= time <= end_utc.
C2_HitsInsideWindow ==
  \A i \in 1..Len(ladder_rows) :
    start_utc <= ladder_rows[i].time /\ ladder_rows[i].time <= end_utc

\* the call is on a linear signal whose rate gives at most one crossing of the
\* target per step interval
LinearOneCrossing ==
  /\ eph.asc.fails = "never"
  /\ eph.asc.rate # 0
  /\ Abs(eph.asc.rate) * timedelta_minutes(args.step_min) < 360

\* the true crossings of the window: the k with phase + rate*t = target + 360k
\* for a real t in [start_utc, end_utc]
TrueCrossings ==
  IF start_utc > end_utc THEN {}
  ELSE {k \in -8..8 :
          LET v == args.target_deg + 360 * k - eph.asc.phase
          IN /\ Min(eph.asc.rate * start_utc, eph.asc.rate * end_utc) <= v
             /\ v <= Max(eph.asc.rate * start_utc, eph.asc.rate * end_utc)}

\* C3: on such a linear signal ascendant_hit_times returns exactly one hit per
\* true crossing of the window: none twice, none missed, none invented.
C3_OneHitPerCrossing ==
  (pc = "returned" /\ LinearOneCrossing) => Len(hits) = Cardinality(TrueCrossings)

\* C4: every time in hits has |wrapdiff(asc(m), target_deg)| <= tol_deg; a sign
\* change at the point opposite the target, or a bracket whose midpoints all
\* miss the tolerance, adds no hit.
C4_HitsWithinTolerance ==
  pc = "returned" =>
    \A i \in 1..Len(hits) :
      LET v == ascendant_deg(hits[i], eph.asc)
      IN /\ v # NaN
         /\ ((v - args.target_deg + 180) % 360) - 180 <= args.tol_deg
         /\ 180 - ((v - args.target_deg + 180) % 360) <= args.tol_deg

\* a call with a hit, and with a bracket whose sign change lies at the point
\* opposite the target and yields no hit
C4_Witness ==
  /\ pc = "returned"
  /\ hits # <<>>
  /\ \E t \in start_utc..end_utc :
       LET step == timedelta_minutes(args.step_min)
           prev == wrapdiff(ascendant_deg(t, eph.asc), args.target_deg)
           cur  == wrapdiff(ascendant_deg(t + step, eph.asc), args.target_deg)
       IN /\ (t - start_utc) % step = 0
          /\ ProdLeZero(prev, cur)
          /\ Abs(prev) > 90 /\ Abs(cur) > 90
          /\ \A i \in 1..Len(hits) : hits[i] < t \/ hits[i] > t + step

\* C6: a scan that asks for more than MAX_SCAN_POINTS samples is rejected before
\* any position is computed; it is never truncated and continued.
C6_OversizedScanRejected ==
  aspects.requested > MAX_SCAN_POINTS => (pc = "raised" /\ aspects.positions = 0)

\* the ascendant cannot be computed at some instant the ladder's scans sample
AscFailsInScan == AscUnavailable(end_utc, eph.asc)

\* C7: a failure of the ephemeris (a planet longitude at the anchor, the
\* ascendant at an instant of the scan) reaches the caller: the run never goes
\* on to rank a ladder built without it.
C7_FailurePropagates ==
  pc \in {"sorted", "reported", "done"} => (~eph.planetFail /\ ~AscFailsInScan)

Swap(rows, i, j) ==
  [k \in 1..Len(rows) |-> IF k = i THEN rows[j] ELSE IF k = j THEN rows[i] ELSE rows[k]]

\* C8: the ranking does not depend on the order of its input: sorting the rows
\* with two neighbours exchanged (these exchanges generate every permutation)
\* gives the same sequence, and sorting the sorted ladder changes nothing.
C8_RankingOrderIndependent ==
  pc = "sorted" =>
    /\ SortRows(ladder_rows) = ladder_rows
    /\ \A i \in 1..(Len(ladder_rows) - 1) :
         SortRows(Swap(ladder_rows, i, i + 1)) = ladder_rows

\* the weight of a row's target, and whether the Moon confirmed it
RowWeight(r) == IF r.label \in {"Jupiter", "Saturn"} THEN 3 ELSE 2
RowMoonOk(r) == \E k \in 1..Len(r.flags) : r.flags[k] = "Moon"

\* C9: a row's score is 2w + (w if moon_ok) + max(0, 6 - floor(bars/50)) + (1 if
\* harmonic); it is >= 0, and of two rows with the same weight, confirmation and
\* label the one with fewer bars scores at least as much.
C9_ScoreMonotoneInBars ==
  \A i \in 1..Len(ladder_rows) :
    LET r == ladder_rows[i]
        w == RowWeight(r)
        step == r.bars \div 50
    IN /\ r.bars >= 1
       /\ r.score >= 0
       /\ r.score = 2 * w + (IF RowMoonOk(r) THEN w ELSE 0)
                    + (IF step >= 6 THEN 0 ELSE 6 - step)
                    + (IF r.label \in {"theta", "theta+180"} THEN 1 ELSE 0)
       /\ \A j \in 1..Len(ladder_rows) :
            LET q == ladder_rows[j]
            IN (q.label = r.label /\ RowMoonOk(q) = RowMoonOk(r) /\ r.bars <= q.bars)
                 => r.score >= q.score

\* two rows of one target with the same confirmation, one at least 50 bars after
\* the other and scoring less
C9_Witness ==
  \E i, j \in 1..Len(ladder_rows) :
    /\ ladder_rows[i].label = ladder_rows[j].label
    /\ RowMoonOk(ladder_rows[i]) = RowMoonOk(ladder_rows[j])
    /\ ladder_rows[i].bars + 50 <= ladder_rows[j].bars
    /\ ladder_rows[i].score > ladder_rows[j].score

\* C10: the rows written are the first (at most 8) rows of the order (score
\* descending, time ascending); the final pick is ladder_rows[0], a row of
\* maximal score and the earliest of those; an empty ladder gives no row and no
\* pick, not an exception.
C10_TopRowsAndFinalPick ==
  pc \in {"reported", "done"} =>
    /\ Len(shown) = Min(TopK, Len(ladder_rows))
    /\ \A i \in 1..Len(shown) : shown[i] = ladder_rows[i]
    /\ \A i, j \in 1..Len(ladder_rows) :
         i < j => \/ ladder_rows[i].score > ladder_rows[j].score
                  \/ /\ ladder_rows[i].score = ladder_rows[j].score
                     /\ ladder_rows[i].time <= ladder_rows[j].time
    /\ ladder_rows = <<>> => final_pick = <<>>
    /\ ladder_rows # <<>> =>
         /\ final_pick = <<ladder_rows[1]>>
         /\ \A j \in 1..Len(ladder_rows) :
              /\ final_pick[1].score >= ladder_rows[j].score
              /\ ladder_rows[j].score = final_pick[1].score
                   => final_pick[1].time <= ladder_rows[j].time

\* a reported ladder of more than 8 rows with at least two scores
C10_Witness ==
  /\ pc = "reported"
  /\ Len(ladder_rows) > TopK
  /\ Len(shown) = TopK
  /\ \E i, j \in 1..Len(ladder_rows) : ladder_rows[i].score # ladder_rows[j].score
  /\ final_pick # <<>>

PlanetNames == {PLANET_MAP[k] : k \in DOMAIN PLANET_MAP}

\* C11: numerology_planet is total: once the numerology step has run, for every
\* anchor price, swing range (a range of 0 included) and bar count, nothing
\* was raised and each of p_price, p_range, p_time is a planet name of
\* PLANET_MAP
C11_NumerologyTotal ==
  pc \in {"numbered", "raised"} =>
    /\ pc = "numbered"
    /\ numerology.p_price \in PlanetNames
    /\ numerology.p_range \in PlanetNames
    /\ numerology.p_time \in PlanetNames

\* the tags are planet names whenever the rounded absolute values are all >= 1
C11_TotalOnPositiveRoots ==
  (/\ pc \in {"numbered", "raised"}
   /\ Round(Abs(numerology.anchor_price), 100) >= 1
   /\ Round(Abs(numerology.swing_high_price - numerology.swing_low_price), 100) >= 1)
  => /\ pc = "numbered"
     /\ numerology.p_price \in PlanetNames
     /\ numerology.p_range \in PlanetNames
     /\ numerology.p_time \in PlanetNames

\* a swing high equal to the swing low, with a sound anchor price, has run
C11_ZeroRangeRan ==
  /\ pc \in {"numbered", "raised"}
  /\ numerology.swing_high_price = numerology.swing_low_price
  /\ numerology.anchor_price = 4333546

\* the instant t is inside the search window of the call and the Moon at t is
\* within tol_deg of the target
ConfirmedInstant(t) ==
  /\ t # None
  /\ trigger.center_utc - timedelta_minutes(trigger.search_min) <= t
  /\ t <= trigger.center_utc + timedelta_minutes(trigger.search_min)
  /\ Abs(wrapdiff(moonlon(t, eph.moon), trigger.target_deg)) <= trigger.tol_deg

\* C12: moon_trigger_time's flag is sound on every return path: a True flag comes
\* with a time that is not None, lies in [center - search_min, center + search_min]
\* and has the Moon within tol_deg of target_deg; a None time comes with a False
\* flag.  Hence the row of the hit carries the Moon flag, a Moon time and the
\* confirmation points +w only for such a confirmed instant.
C12_MoonFlagSound ==
  /\ pc \in {"triggered", "rowed"} =>
       /\ trigger.ok => ConfirmedInstant(trigger.t)
       /\ trigger.t = None => ~trigger.ok
  /\ \A i \in 1..Len(ladder_rows) :
       LET r    == ladder_rows[i]
           base == 2 * trigger.w + Recency(r.bars) + (IF IsHarmonic(r.label) THEN 1 ELSE 0)
       IN /\ RowMoonOk(r) => ConfirmedInstant(r.moon_time)
          /\ r.moon_time # None => ConfirmedInstant(r.moon_time) /\ RowMoonOk(r)
          /\ r.score \in {base, base + trigger.w}
          /\ r.score = base + trigger.w => ConfirmedInstant(r.moon_time)

\* a row confirmed at a refined instant away from the hit
C12_Witness ==
  /\ pc = "rowed"
  /\ trigger.ok
  /\ trigger.t # trigger.center_utc
  /\ Len(ladder_rows) = 1
  /\ RowMoonOk(ladder_rows[1])
  /\ ladder_rows[1].moon_time = trigger.t

\* a time returned without confirmation, and no time at all
C12_UnconfirmedTime ==
  pc = "rowed" /\ trigger.t # None /\ ~trigger.ok

C12_NoTime ==
  pc = "rowed" /\ trigger.t = None

=============================================================================
